---- MODULE Spec2Model ----
(***************************************************************************)
(* Model of dashboard.py: a Streamlit script that loads a CSV of posts     *)
(* once (st.cache_data), and on every user interaction is re-executed top  *)
(* to bottom: sidebar filters -> boolean-mask filter -> empty check ->     *)
(* KPIs -> charts -> daily resample -> per-topic summary -> selectbox ->   *)
(* detail panel of the selected record.                                    *)
(*                                                                         *)
(* One action of the model is one complete execution of the script, driven *)
(* by the interaction that triggered it.  trust_score is an integer in     *)
(* 0..100, predicted_confidence is counted in hundredths (0..100), a       *)
(* timestamp is the number of its calendar day.                            *)
(***************************************************************************)
EXTENDS Integers, Sequences, FiniteSets

VARIABLES
    disk,                      \* rows of the CSV file as it is on disk now
    cache,                     \* st.cache_data entry of load_data: <<>> or <<rows>>
    loads,                     \* number of times the body of load_data has run
    session,                   \* "none" before the first run, then "active"
    df,                        \* the value load_data() returned to the last run
    topic_filter,              \* multiselect value
    min_trust_score,           \* slider value
    min_sentiment_confidence,  \* slider value (hundredths)
    ran,                       \* the steps the last run executed
    df_filtered,
    kpi,                       \* <<>> or <<the four metrics>>
    df_resampled,
    topic_summary,
    options,                   \* option list of the selectbox of the last run
    selected_tweet_id,
    lookup,                    \* df_filtered[df_filtered["tweet_id"] == selected_tweet_id]
    detail                     \* <<>> or <<the detail panel>>

vars == <<disk, cache, loads, session, df, topic_filter, min_trust_score,
          min_sentiment_confidence, ran, df_filtered, kpi, df_resampled,
          topic_summary, options, selected_tweet_id, lookup, detail>>

----------------------------------------------------------------------------
(* Bounds of the model *)

MaxRecords == 3        \* rows of the CSV
MaxDay == 3            \* calendar days 1..MaxDay

(* Program constants *)

MinTrustDefault == 0
MinConfidenceDefault == 0

Topics == {"Economy", "Health"}
Sentiments == {"negative", "neutral", "positive"}
TrustValues == {0, 50}           \* trust_score values of the rows
ConfidenceValues == {0, 50}      \* predicted_confidence values of the rows
TrustStops == {0, 50}            \* slider positions tried, of 0..100
ConfidenceStops == {0, 50}       \* slider positions tried, of 0.00..1.00 step 0.05

\* Python's order on the labels (str.__lt__), used where pandas sorts.
StrOrder == [Economy |-> 1, Health |-> 2, negative |-> 3, neutral |-> 4, positive |-> 5]

NoSelection == 0 - 1             \* the selectbox has not been rendered (None)

----------------------------------------------------------------------------
(* Sequence helpers *)

Range(s) == {s[i] : i \in 1..Len(s)}

RECURSIVE Unique(_)
\* Series.unique(): the distinct values in order of first appearance
Unique(s) ==
    IF s = <<>> THEN <<>>
    ELSE LET u == Unique(SubSeq(s, 1, Len(s) - 1))
             x == s[Len(s)]
         IN IF x \in Range(u) THEN u ELSE Append(u, x)

RECURSIVE SortedSeq(_, _)
\* the elements of S in increasing rank
SortedSeq(S, rank) ==
    IF S = {} THEN <<>>
    ELSE LET m == CHOOSE x \in S : \A y \in S : rank[x] <= rank[y]
         IN <<m>> \o SortedSeq(S \ {m}, rank)

RECURSIVE Sum(_)
Sum(s) == IF s = <<>> THEN 0 ELSE s[1] + Sum(Tail(s))

Count(s, v) == Cardinality({i \in 1..Len(s) : s[i] = v})

Column(f, c) == [i \in 1..Len(f) |-> f[i][c]]

----------------------------------------------------------------------------
(* Loader *)

Row(id, day, topic, sentiment, confidence, trust) ==
    [tweet_id |-> id, timestamp |-> day, topic |-> topic, text |-> "text",
     predicted_sentiment |-> sentiment, predicted_confidence |-> confidence,
     trust_score |-> trust, trust_explanation |-> "explanation"]

load_data_uncached(c, dk, n) == [cache |-> <<dk>>, df |-> dk, loads |-> n + 1]

\* @st.cache_data def load_data(): the body runs on a cache miss only
load_data(c, dk, n) ==
    IF c = <<>> THEN [cache |-> <<dk>>, df |-> dk, loads |-> n + 1]
    ELSE [cache |-> c, df |-> c[1], loads |-> n]

----------------------------------------------------------------------------
(* Filter stage *)

TopicOptions(d) == Range(Unique(Column(d, "topic")))

RowMask_strict(r, topics, mt, mc) ==
    /\ r.topic \in topics
    /\ r.trust_score > mt
    /\ r.predicted_confidence > mc

RowMask_or(r, topics, mt, mc) ==
    /\ r.topic \in topics
    /\ \/ r.trust_score >= mt
       \/ r.predicted_confidence >= mc

RowMask(r, topics, mt, mc) ==
    /\ r.topic \in topics
    /\ r.trust_score >= mt
    /\ r.predicted_confidence >= mc

ApplyFilters(d, topics, mt, mc) ==
    SelectSeq(d, LAMBDA r : RowMask(r, topics, mt, mc))

\* if df_filtered.empty: st.warning(...); st.stop()
StopsWhenEmpty(f) == Len(f) = 0

----------------------------------------------------------------------------
(* Aggregator *)

\* num/den rounded to the nearest integer, halves to the even neighbour
RoundDiv(num, den) ==
    LET q == num \div den
        r == num % den
    IN IF 2 * r < den THEN q
       ELSE IF 2 * r > den THEN q + 1
       ELSE IF q % 2 = 0 THEN q ELSE q + 1

\* Series.mean() shown with two decimals: <<>> is NaN, <<h>> is h hundredths
Mean2(xs, scale) ==
    IF Len(xs) = 0 THEN <<>> ELSE <<RoundDiv(scale * Sum(xs), Len(xs))>>

\* Series.mean() unrounded: <<>> is NaN, <<s, n>> is s/n
Mean(xs) == IF Len(xs) = 0 THEN <<>> ELSE <<Sum(xs), Len(xs)>>

Modes(xs) == {v \in Range(xs) : \A w \in Range(xs) : Count(xs, v) >= Count(xs, w)}

Mode0_first(xs) ==
    LET ms == Modes(xs)
        i == CHOOSE j \in 1..Len(xs) :
                 /\ xs[j] \in ms
                 /\ \A k \in 1..(j - 1) : xs[k] \notin ms
    IN xs[i]

\* x.mode()[0]: Series.mode() returns the most frequent values sorted
Mode0(xs) ==
    LET ms == Modes(xs)
    IN CHOOSE m \in ms : \A w \in ms : StrOrder[m] <= StrOrder[w]

\* x.mode()[0] if not x.empty else fallback
ModeOr(xs, fallback) == IF Len(xs) = 0 THEN fallback ELSE Mode0(xs)

TotalPosts_columns(f) == 8

\* df_filtered.shape[0]
TotalPosts(f) == Len(f)

Metrics(f) ==
    [total_posts |-> TotalPosts(f),
     avg_trust_score |-> Mean2(Column(f, "trust_score"), 100),
     avg_sentiment_confidence |-> Mean2(Column(f, "predicted_confidence"), 1),
     most_frequent_sentiment |-> ModeOr(Column(f, "predicted_sentiment"), "N/A")]

PresentDays(f) == {f[i].timestamp : i \in 1..Len(f)}

\* the bins of resample('D'): every day from the first to the last one present
ResampleDays(f) ==
    LET days == {f[i].timestamp : i \in 1..Len(f)}
    IN {d \in 0..(MaxDay + 1) : /\ \E a \in days : a <= d
                                /\ \E b \in days : d <= b}

sentiment_map == [positive |-> 1, neutral |-> 0, negative |-> 0 - 1]

\* set_index('timestamp').resample('D').agg({...}).reset_index(), then the
\* sentiment_value column
Resample(f) ==
    LET days == ResampleDays(f)
        order == SortedSeq(days, [d \in days |-> d])
        bucket(d) == SelectSeq(f, LAMBDA r : r.timestamp = d)
        row(d, b) ==
            LET dominant == ModeOr(Column(b, "predicted_sentiment"), "neutral")
            IN [timestamp |-> d,
                predicted_sentiment |-> dominant,
                trust_score |-> Mean(Column(b, "trust_score")),
                sentiment_value |-> sentiment_map[dominant]]
    IN [k \in 1..Len(order) |-> row(order[k], bucket(order[k]))]

GroupKeys_first(f) == IF Len(f) = 0 THEN {} ELSE {f[1].topic}

\* the groups of groupby("topic")
GroupKeys(f) == {f[i].topic : i \in 1..Len(f)}

\* groupby("topic").agg(...).reset_index().round(2): one row per key, keys sorted
TopicSummary(f) ==
    LET keys == GroupKeys(f)
        order == SortedSeq(keys, [t \in keys |-> StrOrder[t]])
        group(t) == SelectSeq(f, LAMBDA r : r.topic = t)
        row(t, g) ==
            [topic |-> t,
             total_posts |-> Len(Column(g, "tweet_id")),
             avg_trust_score |-> Mean2(Column(g, "trust_score"), 100),
             avg_sentiment_confidence |-> Mean2(Column(g, "predicted_confidence"), 1),
             most_frequent_sentiment |-> ModeOr(Column(g, "predicted_sentiment"), "N/A")]
    IN [k \in 1..Len(order) |-> row(order[k], group(order[k]))]

----------------------------------------------------------------------------
(* Presenter *)

\* options=df_filtered["tweet_id"].unique()
SelectOptions(f) == Unique(Column(f, "tweet_id"))

\* st.selectbox: the first option, unless the user's pick for this very option
\* list is still held by the widget; None when there is no option
SelectBox(opts, pick, prevOpts) ==
    IF opts = <<>> THEN NoSelection
    ELSE IF opts = prevOpts /\ pick \in Range(opts) THEN pick
    ELSE opts[1]

\* if selected_tweet_id: (None and 0 are falsy)
Truthy(v) == v # NoSelection /\ v # 0

Lookup_unmasked(f, id) == f

\* df_filtered[df_filtered["tweet_id"] == selected_tweet_id]
Lookup(f, id) == SelectSeq(f, LAMBDA r : r.tweet_id = id)

\* the five st.write lines and st.json(selected_row.drop('trust_explanation'))
Panel(row) ==
    [text |-> row.text,
     predicted_sentiment |-> row.predicted_sentiment,
     predicted_confidence |-> row.predicted_confidence,
     trust_score |-> row.trust_score,
     explanation |-> row.trust_explanation,
     full_details |-> [c \in (DOMAIN row) \ {"trust_explanation"} |-> row[c]]]

----------------------------------------------------------------------------
(* One execution of the script, lines 14-120 *)

NothingShown ==
    [kpi |-> <<>>, df_resampled |-> <<>>, topic_summary |-> <<>>, options |-> <<>>,
     selected_tweet_id |-> NoSelection, lookup |-> <<>>, detail |-> <<>>]

\* lines 54-120, reached when the empty check did not stop the run
Render(f, pick, prevOpts) ==
    LET opts == SelectOptions(f)
        sel == SelectBox(opts, pick, prevOpts)
        rows == IF Truthy(sel) THEN Lookup(f, sel) ELSE <<>>
        shown == Truthy(sel) /\ rows # <<>>
    IN [ran |-> {"kpi", "charts", "resample", "topic_summary", "selectbox"}
                  \cup (IF Truthy(sel) THEN {"lookup"} ELSE {})
                  \cup (IF Truthy(sel) /\ rows = <<>> THEN {"IndexError"} ELSE {})
                  \cup (IF shown THEN {"detail"} ELSE {}),
        kpi |-> <<Metrics(f)>>,
        df_resampled |-> Resample(f),
        topic_summary |-> TopicSummary(f),
        options |-> opts,
        selected_tweet_id |-> sel,
        lookup |-> rows,
        detail |-> IF shown THEN <<Panel(rows[1])>> ELSE <<>>]

Script(d, topics, mt, mc, pick, prevOpts) ==
    LET f == ApplyFilters(d, topics, mt, mc)
        warned == IF Len(f) = 0 THEN {"warning"} ELSE {}
    IN IF StopsWhenEmpty(f)
       THEN [out |-> NothingShown, ran |-> {"filter", "stop"} \cup warned, df_filtered |-> f]
       ELSE LET r == Render(f, pick, prevOpts)
            IN [out |-> r, ran |-> {"filter"} \cup warned \cup r.ran, df_filtered |-> f]

\* A run: load_data() through the cache, then the script with the widget values
\* topics, mt, mc and the selectbox pick.
Run(L, topics, mt, mc, pick) ==
    \E s \in {Script(L.df, topics, mt, mc, pick, options)} :
       /\ cache' = L.cache
       /\ loads' = L.loads
       /\ df' = L.df
       /\ session' = "active"
       /\ topic_filter' = topics
       /\ min_trust_score' = mt
       /\ min_sentiment_confidence' = mc
       /\ ran' = s.ran
       /\ df_filtered' = s.df_filtered
       /\ kpi' = s.out.kpi
       /\ df_resampled' = s.out.df_resampled
       /\ topic_summary' = s.out.topic_summary
       /\ options' = s.out.options
       /\ selected_tweet_id' = s.out.selected_tweet_id
       /\ lookup' = s.out.lookup
       /\ detail' = s.out.detail
       /\ UNCHANGED disk

----------------------------------------------------------------------------
(* Actions *)

\* A browser opens (or reloads) the page: every widget takes its default.
NewSession ==
    LET L == load_data(cache, disk, loads)
    IN Run(L, TopicOptions(L.df), MinTrustDefault, MinConfidenceDefault, NoSelection)

\* The user changes the topic multiselect.
SetTopics ==
    /\ session = "active"
    /\ \E S \in SUBSET TopicOptions(df) :
          /\ S # topic_filter
          /\ Run(load_data(cache, disk, loads), S, min_trust_score,
                 min_sentiment_confidence, selected_tweet_id)

\* The user moves the trust slider.
SetMinTrust ==
    /\ session = "active"
    /\ \E v \in TrustStops :
          /\ v # min_trust_score
          /\ Run(load_data(cache, disk, loads), topic_filter, v,
                 min_sentiment_confidence, selected_tweet_id)

\* The user moves the confidence slider.
SetMinConfidence ==
    /\ session = "active"
    /\ \E v \in ConfidenceStops :
          /\ v # min_sentiment_confidence
          /\ Run(load_data(cache, disk, loads), topic_filter, min_trust_score, v,
                 selected_tweet_id)

\* The user picks another option of the selectbox.
SelectTweet ==
    /\ session = "active"
    /\ "selectbox" \in ran
    /\ \E id \in Range(options) :
          /\ id # selected_tweet_id
          /\ Run(load_data(cache, disk, loads), topic_filter, min_trust_score,
                 min_sentiment_confidence, id)

\* The CSV file is replaced on disk (here: by one with the header only).
FileChange ==
    /\ disk # <<>>
    /\ disk' = <<>>
    /\ UNCHANGED <<cache, loads, session, df, topic_filter, min_trust_score,
                   min_sentiment_confidence, ran, df_filtered, kpi, df_resampled,
                   topic_summary, options, selected_tweet_id, lookup, detail>>

Next ==
    \/ NewSession
    \/ SetTopics
    \/ SetMinTrust
    \/ SetMinConfidence
    \/ SelectTweet
    \/ FileChange

----------------------------------------------------------------------------
(* Initial states: the process has started, no session has run the script *)

\* CSV files of n rows; tweet_id is a primary key: first, first + 1, ...
Files(n, first, days, sentiments, confidences, trusts) ==
    LET Attr == days \X Topics \X sentiments \X confidences \X trusts
    IN {[i \in 1..Len(a) |->
            Row(first + i - 1, a[i][1], a[i][2], a[i][3], a[i][4], a[i][5])] :
        a \in UNION {[1..k -> Attr] : k \in 0..n}}

Start(files) ==
    /\ disk \in files
    /\ cache = <<>>
    /\ loads = 0
    /\ session = "none"
    /\ df = <<>>
    /\ topic_filter = {}
    /\ min_trust_score = MinTrustDefault
    /\ min_sentiment_confidence = MinConfidenceDefault
    /\ ran = {}
    /\ df_filtered = <<>>
    /\ kpi = <<>>
    /\ df_resampled = <<>>
    /\ topic_summary = <<>>
    /\ options = <<>>
    /\ selected_tweet_id = NoSelection
    /\ lookup = <<>>
    /\ detail = <<>>

\* Rows that differ in topic, trust_score and predicted_confidence; ids from 0 or 1.
Init ==
    Start(UNION {Files(MaxRecords, first, {1}, {"positive"}, ConfidenceValues, TrustValues) :
                 first \in {0, 1}})

\* Rows that differ in calendar day and topic; ids from 1.
InitDaily ==
    Start(Files(MaxRecords, 1, 1..MaxDay, {"positive"}, {50}, {50}))

\* Rows that differ in topic and predicted_sentiment, on alternating days; ids from 1.
InitMode ==
    Start({[i \in 1..Len(f) |-> [f[i] EXCEPT !.timestamp = 1 + ((i - 1) % 2)]] :
           f \in Files(MaxRecords, 1, {1}, Sentiments, {50}, {50})})

Spec == Init /\ [][Next]_vars

SpecDaily == InitDaily /\ [][Next]_vars

SpecMode == InitMode /\ [][Next]_vars

----------------------------------------------------------------------------
(* Properties *)

FilteredIds == {df_filtered[i].tweet_id : i \in 1..Len(df_filtered)}

\* C1: the filtered set is exactly the subsequence of the full record set, in the
\* original order, of the records with topic in topics, trust_score >= min_trust
\* and predicted_confidence >= min_confidence: none that satisfies all three is
\* left out, none that fails one is kept.
FilterIsExactSubsequence ==
    LET keep == {i \in 1..Len(df) :
                    /\ df[i].topic \in topic_filter
                    /\ df[i].trust_score >= min_trust_score
                    /\ df[i].predicted_confidence >= min_sentiment_confidence}
        nth(k) == CHOOSE i \in keep : Cardinality({j \in keep : j <= i}) = k
    IN "filter" \in ran =>
          /\ Len(df_filtered) = Cardinality(keep)
          /\ \A k \in 1..Len(df_filtered) : df_filtered[k] = df[nth(k)]

\* a run whose filters keep some records and drop others, out of the middle too
FilterWitness ==
    /\ "filter" \in ran
    /\ Len(df) = 3
    /\ Len(df_filtered) = 2
    /\ df_filtered[1] = df[1]
    /\ df_filtered[2] = df[3]
    /\ min_trust_score = 50
    /\ df[2].topic \in topic_filter

\* C2: a run whose filtered set is empty issues the warning and halts before any
\* KPI, chart, daily series, per-topic summary or record lookup step; a run whose
\* filtered set is not empty issues no warning and runs all of those steps.
EmptyCheckDecidesSteps ==
    "filter" \in ran =>
        IF df_filtered = <<>>
        THEN /\ "warning" \in ran
             /\ ran \cap {"kpi", "charts", "resample", "topic_summary", "selectbox",
                          "lookup", "detail"} = {}
             /\ kpi = <<>> /\ df_resampled = <<>> /\ topic_summary = <<>>
             /\ options = <<>> /\ lookup = <<>> /\ detail = <<>>
        ELSE /\ "warning" \notin ran
             /\ {"kpi", "charts", "resample", "topic_summary", "selectbox",
                 "lookup"} \subseteq ran

\* C3: the daily series has one row per calendar day on which a filtered record
\* falls and no row for any other day, so the fallback of an empty bucket is
\* never taken.
DailyDaysExactlyPresent ==
    "resample" \in ran =>
        /\ {df_resampled[k].timestamp : k \in 1..Len(df_resampled)}
              = {df_filtered[i].timestamp : i \in 1..Len(df_filtered)}
        /\ \A k \in 1..Len(df_resampled) :
              \E i \in 1..Len(df_filtered) :
                 df_filtered[i].timestamp = df_resampled[k].timestamp

\* C3 as amended: the daily series has exactly one row for every calendar day
\* from the earliest to the latest day of the filtered records, in increasing
\* order; a day of that range without a filtered record has a row too, with the
\* fallback 'neutral' (value 0) and no mean trust score.
DailyDaysSpanFirstToLast ==
    LET present == {df_filtered[i].timestamp : i \in 1..Len(df_filtered)}
        lo == CHOOSE a \in present : \A b \in present : a <= b
        hi == CHOOSE a \in present : \A b \in present : a >= b
    IN "resample" \in ran =>
          /\ Len(df_resampled) = hi - lo + 1
          /\ \A k \in 1..Len(df_resampled) :
                /\ df_resampled[k].timestamp = lo + k - 1
                /\ (df_resampled[k].timestamp \notin present) =>
                      /\ df_resampled[k].predicted_sentiment = "neutral"
                      /\ df_resampled[k].sentiment_value = 0
                      /\ df_resampled[k].trust_score = <<>>
                /\ (df_resampled[k].timestamp \in present) =>
                      df_resampled[k].trust_score # <<>>

\* filtered records on days 3 and 1 only (the record of day 2 is filtered out):
\* day 2 gets a row with the fallback
DailyGapWitness ==
    /\ "resample" \in ran
    /\ Len(df) = 3
    /\ df[2].timestamp = 2
    /\ Column(df_filtered, "timestamp") = <<3, 1>>
    /\ Column(df_filtered, "predicted_sentiment") = <<"positive", "positive">>
    /\ Column(df_resampled, "timestamp") = <<1, 2, 3>>
    /\ Column(df_resampled, "predicted_sentiment") = <<"positive", "neutral", "positive">>

\* The groups whose mode the run reports, each with the reported value: the whole
\* filtered set (KPI), the records of each daily row, the records of each topic row.
ReportedModes ==
    LET sentiments(keep(_)) ==
            Column(SelectSeq(df_filtered, keep), "predicted_sentiment")
        onDay(d) == sentiments(LAMBDA r : r.timestamp = d)
        onTopic(t) == sentiments(LAMBDA r : r.topic = t)
    IN {<<Column(df_filtered, "predicted_sentiment"), kpi[k].most_frequent_sentiment>> :
            k \in 1..Len(kpi)}
       \cup {<<onDay(df_resampled[k].timestamp), df_resampled[k].predicted_sentiment>> :
                k \in 1..Len(df_resampled)}
       \cup {<<onTopic(topic_summary[k].topic), topic_summary[k].most_frequent_sentiment>> :
                k \in 1..Len(topic_summary)}

MostFrequent(xs, v) ==
    /\ v \in Range(xs)
    /\ \A w \in Range(xs) : Count(xs, v) >= Count(xs, w)

\* C4: the mode reported by the KPI, by each daily bucket and by each topic group
\* is a most frequent sentiment of the group, and among several most frequent
\* ones it is the one first encountered in record order.
ModeIsFirstEncountered ==
    \A g \in ReportedModes :
       g[1] # <<>> =>
          /\ MostFrequent(g[1], g[2])
          /\ \E j \in 1..Len(g[1]) :
                /\ g[1][j] = g[2]
                /\ \A k \in 1..(j - 1) : ~MostFrequent(g[1], g[1][k])

\* C4 as amended: the mode reported for a group with at least one record is a most
\* frequent sentiment of the group, and among several most frequent ones it is
\* the label that sorts first (negative < neutral < positive).
ModeIsSmallestLabel ==
    \A g \in ReportedModes :
       g[1] # <<>> =>
          /\ MostFrequent(g[1], g[2])
          /\ \A w \in Range(g[1]) :
                MostFrequent(g[1], w) => StrOrder[g[2]] <= StrOrder[w]

\* ties whose first encountered value is not the one reported: three ways over
\* the filtered set, two ways on day 1 and two ways in topic Health
ModeTieWitness ==
    /\ "topic_summary" \in ran
    /\ Column(df_filtered, "predicted_sentiment") = <<"positive", "neutral", "negative">>
    /\ Column(df_filtered, "timestamp") = <<1, 2, 1>>
    /\ Column(df_filtered, "topic") = <<"Economy", "Health", "Health">>
    /\ kpi[1].most_frequent_sentiment = "negative"
    /\ Column(df_resampled, "predicted_sentiment") = <<"negative", "neutral">>
    /\ Column(topic_summary, "most_frequent_sentiment") = <<"positive", "negative">>

\* C5: the per-topic summary partitions the filtered set: exactly one row for
\* every topic of the filtered set, no row for another topic, each count is the
\* number of filtered records of the topic, and the counts add up to the size of
\* the filtered set.
TopicSummaryPartitions ==
    LET rowsOf(t) == {k \in 1..Len(topic_summary) : topic_summary[k].topic = t}
        recordsOf(t) == {i \in 1..Len(df_filtered) : df_filtered[i].topic = t}
    IN "topic_summary" \in ran =>
          /\ \A t \in Topics :
                Cardinality(rowsOf(t)) = IF recordsOf(t) = {} THEN 0 ELSE 1
          /\ \A k \in 1..Len(topic_summary) :
                /\ topic_summary[k].topic \in Topics
                /\ topic_summary[k].total_posts
                      = Cardinality(recordsOf(topic_summary[k].topic))
          /\ Sum(Column(topic_summary, "total_posts")) = Len(df_filtered)

\* two topics among three filtered records, the second topic first in the file
TopicSummaryWitness ==
    /\ "topic_summary" \in ran
    /\ Len(df_filtered) = 3
    /\ df_filtered[1].topic = "Health"
    /\ Len(topic_summary) = 2
    /\ topic_summary[1].total_posts = 1
    /\ topic_summary[2].total_posts = 2

\* C6: the option list of the selection control is exactly the ids of the current
\* filtered set; a lookup is only made for an id of that set, and it returns
\* exactly one record, of the filtered set, carrying the selected id.
SelectionWithinFiltered ==
    /\ "selectbox" \in ran =>
          /\ Range(options) = FilteredIds
          /\ selected_tweet_id \in FilteredIds
    /\ "IndexError" \notin ran
    /\ "lookup" \in ran =>
          /\ selected_tweet_id \in FilteredIds
          /\ Len(lookup) = 1
          /\ \E i \in 1..Len(df_filtered) : df_filtered[i] = lookup[1]
          /\ lookup[1].tweet_id = selected_tweet_id
          /\ detail = <<Panel(lookup[1])>>

\* after filter changes and a selection: the last of two remaining records is shown
SelectionWitness ==
    /\ "lookup" \in ran
    /\ Len(df) = 3
    /\ Len(df_filtered) = 2
    /\ topic_filter # TopicOptions(df)
    /\ min_sentiment_confidence = 50
    /\ selected_tweet_id = df_filtered[2].tweet_id
    /\ selected_tweet_id # options[1]

\* C7: load_data is computed at most once per process, and every run after the
\* first load sees the record set of that load, unchanged in content and order,
\* whatever the interactions and whatever happens to the file.
RecordSetImmutable ==
    [][/\ loads' <= 1
       /\ (cache = <<>>) => (loads = 0)
       /\ (cache # <<>>) =>
             /\ cache' = cache
             /\ loads' = loads
             /\ df' = cache[1]]_vars

\* runs with changed filters and a selection, while the file on disk has changed
ImmutableWitness ==
    /\ loads = 1
    /\ Len(df) = 3
    /\ disk # df
    /\ "detail" \in ran
    /\ topic_filter # TopicOptions(df)
    /\ selected_tweet_id # options[1]

\* C8: with all topics of the record set selected, min_trust = 0 and
\* min_confidence = 0 (the values of a fresh session), the filtered set equals
\* the full record set.
LoosestFilterIsIdentity ==
    ( /\ "filter" \in ran
      /\ topic_filter = {df[i].topic : i \in 1..Len(df)}
      /\ min_trust_score = 0
      /\ min_sentiment_confidence = 0 ) => df_filtered = df

\* the loosest filters over records at the lower ends of both score ranges
LoosestWitness ==
    /\ "filter" \in ran
    /\ topic_filter = {df[i].topic : i \in 1..Len(df)}
    /\ min_trust_score = 0
    /\ min_sentiment_confidence = 0
    /\ Len(df) = 3
    /\ df[1].trust_score = 0
    /\ df[2].predicted_confidence = 0
    /\ df[1].topic # df[3].topic
    /\ df_filtered = df

\* C9: in every run that reaches the KPI step, 'Total Posts' is the number of
\* records of the current filtered set, hence at least 1.
KpiCountIsFilteredSize ==
    /\ ("kpi" \in ran) <=> (kpi # <<>>)
    /\ "kpi" \in ran =>
          /\ kpi[1].total_posts = Len(df_filtered)
          /\ kpi[1].total_posts >= 1

\* the KPI of a filtered set smaller than the record set
KpiCountWitness ==
    /\ "kpi" \in ran
    /\ Len(df) = 3
    /\ kpi[1].total_posts = 2

\* C10: in every run with a non-empty filtered set the detail panel is shown for
\* the selected record, whatever its id, 0 included.
DetailShownForAnyId ==
    ("filter" \in ran /\ df_filtered # <<>>) =>
        /\ "detail" \in ran
        /\ \E i \in 1..Len(df_filtered) :
              /\ df_filtered[i].tweet_id = selected_tweet_id
              /\ detail = <<Panel(df_filtered[i])>>

====
